---------------------------- MODULE Spec2Model ----------------------------
(***************************************************************************)
(* A model of parallax.hpp: the millis()-driven cooperative scheduler.     *)
(*                                                                         *)
(*   execute(task, duration)  allocates a ScheduledTask, stamps it with    *)
(*                            millis() and pushes it on the list at head.  *)
(*   update()                 reads millis() once, then walks the list     *)
(*                            through a pointer-to-pointer, invoking the   *)
(*                            entries still inside their duration and      *)
(*                            unlinking and deleting the others.           *)
(*                                                                         *)
(* millis() is an unsigned counter of Width bits.  The model keeps the     *)
(* unwrapped time in now (which the program cannot see) and lets the       *)
(* program read only now % W.  update() is modelled one loop iteration     *)
(* per step, so the counter may advance while a scan is under way, and a   *)
(* task invoked by the scan may itself call execute().                     *)
(***************************************************************************)
EXTENDS Integers, Sequences, FiniteSets, TLC

\* ------------------------------------------------------------- bounds
\* Width of the millis() counter in bits (unsigned long in the source).
Width == 4
\* Execute calls made in one run (by the host or by a task).
MaxAllocs == 3
\* Counter ticks that may pass while one update() call is scanning.
ScanDrift == 1
\* Clock ticks over which the program is followed to see its calls return.
LiveHorizon == 12

W == 2 ^ Width
\* The unwrapped time runs past two full counter periods while at most one
\* entry has been admitted, and just past the first wrap otherwise.
MaxTime == 2 * W + 2
BusyEnd == W + 2

\* The instants at which execute() is called: at start-up, five ticks
\* before the counter wraps, on its last value and on the wrap.
AdmitTimes == {0, W - 5, W - 1, W}

\* The calls of execute() the host makes: a Task and a duration.  The
\* Task objects are those the host declared with setupProcess / Task(func):
\* tEmpty wraps an empty std::function, tPlain wraps plain code, and the
\* code of tSpawn calls execute() on tPlain.
Requests ==
    {<<"tPlain", 0>>, <<"tPlain", 2>>, <<"tPlain", 10>>,
     <<"tEmpty", 2>>, <<"tSpawn", 10>>}
\* Durations a task passes when it calls execute() from inside update().
SpawnDurations == {0, 2}

Null == 0

VARIABLES
    now,          \* unwrapped time; millis() returns now % W
    head,         \* parallax::head
    mem,          \* the allocated ScheduledTask nodes, by address
    nAlloc,       \* nodes allocated so far (addresses are handed out in order)
    retired,      \* addresses update() has unlinked so far
    pc,           \* "idle": no call under way; "scan": inside update()'s loop
    currentTime,  \* update()'s local
    indirect,     \* update()'s local: Null stands for &head, a for &a->next
    call,         \* bookkeeping: what the update() call under way, or just
                  \* returned, read and did; cleared when the host calls
                  \* execute() or the counter moves on after the return
    poll          \* bookkeeping: how regularly update() has been called
                  \* since the first entry was admitted, kept while that
                  \* entry is the only one there has been

vars ==
    <<now, head, mem, nAlloc, retired, pc, currentTime, indirect, call, poll>>

\* ------------------------------------------------------------- helpers
\* Where two definitions stand together under one comment, the last is the
\* code's; those before it are the same place written with a plausible
\* fault, kept to show that the properties below tell the two apart.

\* millis(): the wrapped counter.
Millis == now % W

\* Task::operator(): the wrapped callable runs only if it is non-empty.
HasFunctionUnguarded(t) == TRUE
HasFunction(t) == t # "tEmpty"

\* currentTime - current->startTime in unsigned arithmetic.
ElapsedNarrow(cur, start) == (cur - start) % (W \div 2)
ElapsedSigned(cur, start) == cur - start
Elapsed(cur, start) == (cur - start) % W

\* The test of line 103.
IsLiveInverted(cur, e) == Elapsed(cur, e.startTime) >= e.duration
IsLiveInclusive(cur, e) == Elapsed(cur, e.startTime) <= e.duration

IsLiveEarly(cur, e) == Elapsed(cur, e.startTime) + 1 < e.duration
IsLive(cur, e) == Elapsed(cur, e.startTime) < e.duration

\* The clock value the loop compares against: the local read once.
ScanTimeReread == Millis
ScanTime == currentTime

\* *indirect
Deref(ind) == IF ind = Null THEN head ELSE mem[ind].next

\* The node a fresh `new ScheduledTask` returns.
NewAddr == nAlloc + 1

\* The node execute() builds: lines 69-74 and 86.
NewNodeNoLink(t, d) ==
    [task |-> t, startTime |-> Millis, duration |-> d, next |-> Null,
     admit |-> now]
NewNodeUnstamped(t, d) ==
    [task |-> t, startTime |-> 0, duration |-> d, next |-> head,
     admit |-> now]
NewNode(t, d) ==
    [task |-> t, startTime |-> Millis, duration |-> d, next |-> head,
     admit |-> now]

\* mem after execute() linked a new node in.
MemAfterPush(t, d) ==
    [a \in DOMAIN mem \cup {NewAddr} |->
        IF a = NewAddr THEN NewNode(t, d) ELSE mem[a]]

\* head after `*indirect = current->next`.
HeadAfterUnlinkAlways(ind, cur) == mem[cur].next
HeadAfterUnlink(ind, cur) == IF ind = Null THEN mem[cur].next ELSE head

\* mem after `*indirect = current->next; delete current`.
MemAfterUnlinkLeak(ind, cur) ==
    [a \in DOMAIN mem |->
        IF a = ind THEN [mem[a] EXCEPT !.next = mem[cur].next] ELSE mem[a]]
MemAfterUnlink(ind, cur) ==
    [a \in DOMAIN mem \ {cur} |->
        IF a = ind THEN [mem[a] EXCEPT !.next = mem[cur].next] ELSE mem[a]]

\* indirect after the live branch: `indirect = &current->next`.
IndirectAfterInvokeStay(ind, cur) == ind
IndirectAfterInvoke(ind, cur) == cur

\* indirect after the expired branch: it is left where it was, so that the
\* node now behind it is examined next.
IndirectAfterRemoveSkip(ind, cur) ==
    IF mem[cur].next # Null THEN mem[cur].next ELSE ind
IndirectAfterRemove(ind, cur) == ind

\* The list as update() would walk it from p.
RECURSIVE Walk(_, _)
Walk(p, fuel) ==
    IF p = Null \/ fuel = 0 \/ p \notin DOMAIN mem
    THEN <<>>
    ELSE <<p>> \o Walk(mem[p].next, fuel - 1)

\* Where that walk stops: Null for a well-formed list.
RECURSIVE WalkEnd(_, _)
WalkEnd(p, fuel) ==
    IF p = Null \/ fuel = 0 \/ p \notin DOMAIN mem
    THEN p
    ELSE WalkEnd(mem[p].next, fuel - 1)

List == Walk(head, MaxAllocs + 1)
ListEnd == WalkEnd(head, MaxAllocs + 1)

Range(s) == {s[i] : i \in 1 .. Len(s)}

\* What the call record keeps of a node.
Snap(a) ==
    [id |-> a, task |-> mem[a].task, startTime |-> mem[a].startTime,
     duration |-> mem[a].duration, admit |-> mem[a].admit]

RECURSIVE SnapAll(_)
SnapAll(s) == IF s = <<>> THEN <<>> ELSE <<Snap(Head(s))>> \o SnapAll(Tail(s))

\* For the call record: {cur} if the counter has moved since the call read
\* it, so far that testing cur against millis() now would decide otherwise
\* than testing it against the value read.
Swayed(cur) ==
    IF IsLive(Millis, mem[cur]) # IsLive(call.snap, mem[cur]) THEN {cur} ELSE {}

NoCall ==
    [reads |-> 0, snap |-> 0, t0 |-> 0, start |-> <<>>, invoked |-> <<>>,
     ran |-> <<>>, removed |-> <<>>, spawned |-> <<>>, swayed |-> {}]

\* No polling record is kept.
NoPoll == [last |-> -1, timely |-> FALSE]

\* The polling record after a call of execute(): it starts with the first
\* entry ever admitted and is dropped when a second one is.
PollAfterExecute ==
    IF nAlloc = 0 THEN [last |-> now, timely |-> TRUE] ELSE NoPoll

\* The polling record after update() read the clock with the entry on the
\* list: the call is timely if the time since the entry's admission or the
\* previous call, added to the entry's duration, is within one period of
\* the counter, and no earlier call came later than that.
PollAfterRead ==
    IF poll.last >= 0 /\ head # Null
    THEN [last |-> now,
          timely |-> poll.timely /\ (now - poll.last) + mem[head].duration <= W]
    ELSE poll

\* The polling record as the counter moves on: it ends with the entry.
PollAfterTick == IF pc = "idle" /\ head = Null THEN NoPoll ELSE poll

\* ------------------------------------------------------------- actions

Init ==
    /\ now = 0
    /\ head = Null
    /\ mem = <<>>
    /\ nAlloc = 0
    /\ retired = {}
    /\ pc = "idle"
    /\ currentTime = 0
    /\ indirect = Null
    /\ call = NoCall
    /\ poll = NoPoll

\* The millis() interrupt: the counter moves on, at any point of the program.
\* The guards are the bounds: the time horizon, and the drift let into a scan.
Advance ==
    /\ now < MaxTime
    /\ nAlloc <= 1 \/ now < BusyEnd
    /\ pc = "scan" => now - call.t0 < ScanDrift
    /\ now' = now + 1
    /\ call' = IF pc = "idle" THEN NoCall ELSE call
    /\ poll' = PollAfterTick
    /\ UNCHANGED <<head, mem, nAlloc, retired, pc, currentTime, indirect>>

\* execute(task, duration), called by the host program, at one of the
\* instants AdmitTimes and at most MaxAllocs times.
ExecuteRestartsTask(t, d) ==
    /\ pc = "idle"
    /\ nAlloc < MaxAllocs
    /\ now \in AdmitTimes
    /\ IF \E a \in DOMAIN mem : mem[a].task = t
       THEN LET a == CHOOSE b \in DOMAIN mem : mem[b].task = t IN
            /\ mem' = [mem EXCEPT ![a].startTime = Millis,
                                  ![a].duration = d,
                                  ![a].admit = now]
            /\ head' = head
       ELSE /\ mem' = MemAfterPush(t, d)
            /\ head' = NewAddr
    /\ nAlloc' = nAlloc + 1
    /\ call' = NoCall
    /\ poll' = PollAfterExecute
    /\ UNCHANGED <<now, retired, pc, currentTime, indirect>>
ExecuteAtTail(t, d) ==
    /\ pc = "idle"
    /\ nAlloc < MaxAllocs
    /\ now \in AdmitTimes
    /\ mem' = [a \in DOMAIN mem \cup {NewAddr} |->
                IF a = NewAddr THEN [NewNode(t, d) EXCEPT !.next = Null]
                ELSE IF mem[a].next = Null
                     THEN [mem[a] EXCEPT !.next = NewAddr]
                     ELSE mem[a]]
    /\ head' = IF head = Null THEN NewAddr ELSE head
    /\ nAlloc' = nAlloc + 1
    /\ call' = NoCall
    /\ poll' = PollAfterExecute
    /\ UNCHANGED <<now, retired, pc, currentTime, indirect>>
Execute(t, d) ==
    /\ pc = "idle"
    /\ nAlloc < MaxAllocs
    /\ now \in AdmitTimes
    /\ mem' = MemAfterPush(t, d)
    /\ head' = NewAddr
    /\ nAlloc' = nAlloc + 1
    /\ call' = NoCall
    /\ poll' = PollAfterExecute
    /\ UNCHANGED <<now, retired, pc, currentTime, indirect>>

\* update(), lines 93-95: the clock is read and the scan starts at &head.
UpdateBeginPastHead ==
    /\ pc = "idle"
    /\ currentTime' = Millis
    /\ indirect' = head
    /\ pc' = "scan"
    /\ call' = [reads |-> 1, snap |-> Millis, t0 |-> now,
                start |-> SnapAll(List), invoked |-> <<>>, ran |-> <<>>,
                removed |-> <<>>, spawned |-> <<>>, swayed |-> {}]
    /\ poll' = PollAfterRead
    /\ UNCHANGED <<now, head, mem, nAlloc, retired>>
UpdateBegin ==
    /\ pc = "idle"
    /\ currentTime' = Millis
    /\ indirect' = Null
    /\ pc' = "scan"
    /\ call' = [reads |-> 1, snap |-> Millis, t0 |-> now,
                start |-> SnapAll(List), invoked |-> <<>>, ran |-> <<>>,
                removed |-> <<>>, spawned |-> <<>>, swayed |-> {}]
    /\ poll' = PollAfterRead
    /\ UNCHANGED <<now, head, mem, nAlloc, retired>>

\* One iteration on a live entry whose task does not call execute():
\* lines 103-106.  tSpawn's code calls execute() only while allocations
\* remain within MaxAllocs, and is plain code after that.
StepInvokeRestamps ==
    /\ pc = "scan"
    /\ Deref(indirect) # Null
    /\ LET cur == Deref(indirect) IN
        /\ IsLive(ScanTime, mem[cur])
        /\ ~(mem[cur].task = "tSpawn" /\ nAlloc < MaxAllocs)
        /\ mem' = [mem EXCEPT ![cur].startTime = currentTime]
        /\ indirect' = IndirectAfterInvoke(indirect, cur)
        /\ call' = [call EXCEPT
                !.invoked = Append(@, cur),
                !.ran = IF HasFunction(mem[cur].task) THEN Append(@, cur) ELSE @,
                !.swayed = @ \cup Swayed(cur)]
    /\ UNCHANGED <<now, head, nAlloc, retired, pc, currentTime, poll>>
StepInvoke ==
    /\ pc = "scan"
    /\ Deref(indirect) # Null
    /\ LET cur == Deref(indirect) IN
        /\ IsLive(ScanTime, mem[cur])
        /\ ~(mem[cur].task = "tSpawn" /\ nAlloc < MaxAllocs)
        /\ indirect' = IndirectAfterInvoke(indirect, cur)
        /\ call' = [call EXCEPT
                !.invoked = Append(@, cur),
                !.ran = IF HasFunction(mem[cur].task) THEN Append(@, cur) ELSE @,
                !.swayed = @ \cup Swayed(cur)]
    /\ UNCHANGED <<now, head, mem, nAlloc, retired, pc, currentTime, poll>>

\* One iteration on a live entry whose task calls execute(tPlain, d)
\* from inside the scan: lines 103-106 with lines 69-88 nested.
StepInvokeSpawnAtTail(d) ==
    /\ pc = "scan"
    /\ Deref(indirect) # Null
    /\ LET cur == Deref(indirect)
           last == CHOOSE a \in DOMAIN mem : mem[a].next = Null
       IN
        /\ IsLive(ScanTime, mem[cur])
        /\ mem[cur].task = "tSpawn"
        /\ nAlloc < MaxAllocs
        /\ mem' = [a \in DOMAIN mem \cup {NewAddr} |->
                    IF a = NewAddr
                    THEN [NewNode("tPlain", d) EXCEPT !.next = Null]
                    ELSE IF a = last THEN [mem[a] EXCEPT !.next = NewAddr]
                    ELSE mem[a]]
        /\ head' = head
        /\ nAlloc' = nAlloc + 1
        /\ indirect' = IndirectAfterInvoke(indirect, cur)
        /\ call' = [call EXCEPT
                !.invoked = Append(@, cur),
                !.ran = Append(@, cur),
                !.spawned = Append(@, NewAddr),
                !.swayed = @ \cup Swayed(cur)]
        /\ poll' = PollAfterExecute
    /\ UNCHANGED <<now, retired, pc, currentTime>>
StepInvokeSpawn(d) ==
    /\ pc = "scan"
    /\ Deref(indirect) # Null
    /\ LET cur == Deref(indirect) IN
        /\ IsLive(ScanTime, mem[cur])
        /\ mem[cur].task = "tSpawn"
        /\ nAlloc < MaxAllocs
        /\ mem' = MemAfterPush("tPlain", d)
        /\ head' = NewAddr
        /\ nAlloc' = nAlloc + 1
        /\ indirect' = IndirectAfterInvoke(indirect, cur)
        /\ call' = [call EXCEPT
                !.invoked = Append(@, cur),
                !.ran = Append(@, cur),
                !.spawned = Append(@, NewAddr),
                !.swayed = @ \cup Swayed(cur)]
        /\ poll' = PollAfterExecute
    /\ UNCHANGED <<now, retired, pc, currentTime>>

\* One iteration on an expired entry: lines 110-113.
StepRemoveInvokesFirst ==
    /\ pc = "scan"
    /\ Deref(indirect) # Null
    /\ LET cur == Deref(indirect) IN
        /\ ~IsLive(ScanTime, mem[cur])
        /\ head' = HeadAfterUnlink(indirect, cur)
        /\ mem' = MemAfterUnlink(indirect, cur)
        /\ indirect' = IndirectAfterRemove(indirect, cur)
        /\ retired' = retired \cup {cur}
        /\ call' = [call EXCEPT
                !.invoked = Append(@, cur),
                !.removed = Append(@, cur),
                !.swayed = @ \cup Swayed(cur)]
    /\ UNCHANGED <<now, nAlloc, pc, currentTime, poll>>
StepRemove ==
    /\ pc = "scan"
    /\ Deref(indirect) # Null
    /\ LET cur == Deref(indirect) IN
        /\ ~IsLive(ScanTime, mem[cur])
        /\ head' = HeadAfterUnlink(indirect, cur)
        /\ mem' = MemAfterUnlink(indirect, cur)
        /\ indirect' = IndirectAfterRemove(indirect, cur)
        /\ retired' = retired \cup {cur}
        /\ call' = [call EXCEPT
                !.removed = Append(@, cur),
                !.swayed = @ \cup Swayed(cur)]
    /\ UNCHANGED <<now, nAlloc, pc, currentTime, poll>>

\* The loop test of line 98 fails: update() returns and its locals are gone.
UpdateReturn ==
    /\ pc = "scan"
    /\ Deref(indirect) = Null
    /\ pc' = "idle"
    /\ currentTime' = 0
    /\ indirect' = Null
    /\ UNCHANGED <<now, head, mem, nAlloc, retired, call, poll>>

Next ==
    \/ Advance
    \/ \E r \in Requests : Execute(r[1], r[2])
    \/ UpdateBegin
    \/ StepInvoke
    \/ \E d \in SpawnDurations : StepInvokeSpawn(d)
    \/ StepRemove
    \/ UpdateReturn

Spec == Init /\ [][Next]_vars

\* One iteration of the loop of update(), or its return.
ScanStep ==
    \/ StepInvoke
    \/ \E d \in SpawnDurations : StepInvokeSpawn(d)
    \/ StepRemove
    \/ UpdateReturn

\* The counter moves on, within the first LiveHorizon ticks.
AdvanceEarly == now < LiveHorizon /\ Advance

LiveNext ==
    \/ AdvanceEarly
    \/ \E r \in Requests : Execute(r[1], r[2])
    \/ UpdateBegin
    \/ ScanStep

\* update() runs to completion without yielding and every task it invokes
\* returns: a call under way always takes its next step.  Whether a call
\* returns depends on the list it meets, not on how far the counter has
\* run, so the program is followed over its first LiveHorizon ticks only.
LiveSpec == Init /\ [][LiveNext]_vars /\ WF_vars(ScanStep)



\* ------------------------------------------------------------- properties

\* update() has just returned and call describes that call.
Returned == pc = "idle" /\ call.reads = 1

\* The entries that were on the list when the recorded call started.
Started == Range(call.start)

Count(s, x) == Cardinality({i \in DOMAIN s : s[i] = x})

\* Elapsed time of an entry as the specification defines it, from the
\* clock value the call read when it started.
SnapElapsed(e) == (call.snap - e.startTime) % W

\* Time that really passed between the entry's admission and the call.
TrueElapsed(e) == call.t0 - e.admit

\* Times the counter wrapped between the entry's admission and the call.
Wraps(e) == (call.t0 \div W) - (e.admit \div W)

\* C1: every entry present when an update() call starts whose elapsed
\* time at the call's clock snapshot is below its duration is invoked
\* exactly once by that call and is still on the list when it returns.
C1_LiveInvokedOnceAndKept ==
    Returned =>
        \A e \in Started :
            SnapElapsed(e) < e.duration =>
                /\ Count(call.invoked, e.id) = 1
                /\ Count(List, e.id) = 1
                /\ e.id \notin Range(call.removed)

C1_Witness ==
    /\ Returned
    /\ \E e \in Started :
        /\ SnapElapsed(e) < e.duration
        /\ SnapElapsed(e) > 0
        /\ Count(call.invoked, e.id) = 1
        /\ e.id \in Range(List)

\* C2: an entry is invoked by every update() call that finds its elapsed
\* time below its duration; the first call that finds elapsed >= duration
\* unlinks and deallocates it in that same call without invoking it.
C2_ExpiryBoundary ==
    Returned =>
        \A e \in Started :
            IF SnapElapsed(e) < e.duration
            THEN e.id \in Range(call.invoked)
            ELSE /\ Count(call.removed, e.id) = 1
                 /\ e.id \notin Range(call.invoked)
                 /\ e.id \notin Range(List)
                 /\ e.id \notin DOMAIN mem

\* An entry met exactly on its boundary, elapsed = duration > 0.
C2_Witness ==
    /\ Returned
    /\ \E e \in Started :
        /\ e.duration > 0
        /\ SnapElapsed(e) = e.duration
        /\ e.id \in Range(call.removed)
        /\ e.id \notin Range(call.invoked)
        /\ e.id \notin DOMAIN mem

\* C3: an entry of duration 0 is never invoked, and the first update()
\* call after its admission removes it: when a call returns, the only
\* zero-duration entries on the list are those admitted during the call.
C3_ZeroDuration ==
    /\ \A i \in DOMAIN call.invoked :
        /\ call.invoked[i] \in DOMAIN mem => mem[call.invoked[i]].duration # 0
        /\ \A e \in Started : e.id = call.invoked[i] => e.duration # 0
    /\ Returned =>
        /\ \A e \in Started : e.duration = 0 => e.id \notin DOMAIN mem
        /\ \A a \in DOMAIN mem :
            mem[a].duration = 0 => a \in Range(call.spawned)

\* A zero-duration entry admitted on the very clock value the call read.
C3_Witness ==
    /\ Returned
    /\ \E e \in Started :
        /\ e.duration = 0
        /\ e.admit = call.t0
        /\ e.id \in Range(call.removed)
        /\ e.id \notin Range(call.invoked)

\* C4: whenever less than one full counter period W has really passed
\* since an entry's admission, wrapped or not, update() invokes the entry
\* iff the true elapsed time is below its duration and removes it iff not.
C4_WrapCorrect ==
    Returned =>
        \A e \in Started :
            (0 <= TrueElapsed(e) /\ TrueElapsed(e) < W) =>
                /\ e.id \in Range(call.invoked) <=> TrueElapsed(e) < e.duration
                /\ e.id \in Range(call.removed) <=> TrueElapsed(e) >= e.duration
                /\ e.id \in DOMAIN mem <=> TrueElapsed(e) < e.duration

\* The specification's example: admitted at W-5 with duration 10, polled
\* at counter value 3 after the wrap, and invoked.
C4_Witness ==
    /\ Returned
    /\ \E e \in Started :
        /\ e.startTime = W - 5
        /\ e.duration = 10
        /\ call.snap = 3
        /\ TrueElapsed(e) = 8
        /\ e.id \in Range(call.invoked)

\* C5 as stated: for a duration of at most half the counter range, one
\* wrap at most between admission and the call is enough for the call to
\* decide by the true elapsed time.
C5_OneWrapTolerated ==
    Returned =>
        \A e \in Started :
            (2 * e.duration <= W /\ Wraps(e) <= 1) =>
                /\ e.id \in Range(call.invoked) <=> TrueElapsed(e) < e.duration
                /\ e.id \in Range(call.removed) <=> TrueElapsed(e) >= e.duration

\* C5 amended: the same, provided also that less than a full counter
\* period has really passed since the admission.
C5_OneWrapWithinPeriod ==
    Returned =>
        \A e \in Started :
            (2 * e.duration <= W /\ Wraps(e) <= 1 /\ TrueElapsed(e) < W) =>
                /\ e.id \in Range(call.invoked) <=> TrueElapsed(e) < e.duration
                /\ e.id \in Range(call.removed) <=> TrueElapsed(e) >= e.duration

\* The counter wrapped once since the admission and the entry is retired
\* on its true elapsed time.
C5_Witness ==
    /\ Returned
    /\ \E e \in Started :
        /\ 2 * e.duration <= W
        /\ e.duration > 0
        /\ Wraps(e) = 1
        /\ TrueElapsed(e) < W
        /\ TrueElapsed(e) >= e.duration
        /\ e.id \in Range(call.removed)

\* What one call did with an entry: times invoked, times removed, and
\* whether the node is still allocated.
Outcome(e) ==
    <<Count(call.invoked, e.id), Count(call.removed, e.id), e.id \in DOMAIN mem>>

\* What the specification prescribes, from the entry's own fields and the
\* clock snapshot alone.
Decision(snap, start, dur) ==
    IF (snap - start) % W < dur THEN <<1, 0, TRUE>> ELSE <<0, 1, FALSE>>

\* C6: what an update() call does with an entry is a function of that
\* entry's startTime and duration and of the call's clock snapshot only,
\* at every list position and whatever happens to the other entries.
C6_Independence ==
    Returned =>
        \A k \in DOMAIN call.start :
            LET e == call.start[k] IN
                Outcome(e) = Decision(call.snap, e.startTime, e.duration)

\* Three entries of distinct durations; the middle one is removed while
\* the entries before and after it are invoked.
C6_Witness ==
    /\ Returned
    /\ Len(call.start) = 3
    /\ Cardinality({call.start[k].duration : k \in 1 .. 3}) = 3
    /\ Outcome(call.start[1]) = <<1, 0, TRUE>>
    /\ Outcome(call.start[2]) = <<0, 1, FALSE>>
    /\ Outcome(call.start[3]) = <<1, 0, TRUE>>

Reverse(s) == [i \in 1 .. Len(s) |-> s[Len(s) + 1 - i]]

\* The ids, in list order, of the entries the call found live.
SurvivorIds ==
    LET live == SelectSeq(call.start, LAMBDA e : SnapElapsed(e) < e.duration)
    IN  [i \in 1 .. Len(live) |-> live[i].id]

\* C7: whichever entries an update() call removes, on return the list
\* holds exactly the entries it found live, once each and in their
\* original order (behind any entry admitted during the call), the chain
\* from head ends in null and reaches every allocated node, and every
\* live entry was invoked.
C7_RemovalSafety ==
    Returned =>
        /\ ListEnd = Null
        /\ List = Reverse(call.spawned) \o SurvivorIds
        /\ \A a \in Range(List) : Count(List, a) = 1
        /\ Range(List) = DOMAIN mem
        /\ \A i \in DOMAIN SurvivorIds : Count(call.invoked, SurvivorIds[i]) = 1

\* The head and the entry behind it are removed in one call and the tail,
\* behind both, is still visited, invoked and linked.
C7_Witness ==
    /\ Returned
    /\ Len(call.start) = 3
    /\ call.removed = <<call.start[1].id, call.start[2].id>>
    /\ call.invoked = <<call.start[3].id>>
    /\ head = call.start[3].id
    /\ List = <<call.start[3].id>>

\* Every entry execute() ever allocated has been unlinked by update().
AllRetired == nAlloc > 0 /\ retired = 1 .. nAlloc

\* C8: once every scheduled entry has been removed, head is null, no
\* node is left allocated, and the update() calls made from then on
\* invoke nothing and leave the list empty.
C8_NoLeak ==
    AllRetired =>
        /\ head = Null
        /\ DOMAIN mem = {}
        /\ call.invoked = <<>>
        /\ Returned => List = <<>>

\* A further update() call on the emptied collection has returned.
C8_Witness ==
    /\ AllRetired
    /\ nAlloc >= 2
    /\ Returned
    /\ call.start = <<>>
    /\ head = Null

\* C9: when an update() call returns, every entry that was on the list
\* when it started and is still there has snapshot elapsed < duration.
C9_NoExpiredSurvivor ==
    Returned =>
        \A e \in Started :
            (e.id \in Range(List) \/ e.id \in DOMAIN mem) =>
                SnapElapsed(e) < e.duration

\* Two adjacent expired entries are removed and a live one survives.
C9_Witness ==
    /\ Returned
    /\ \E k \in DOMAIN call.start :
        /\ k + 1 \in DOMAIN call.start
        /\ SnapElapsed(call.start[k]) >= call.start[k].duration
        /\ SnapElapsed(call.start[k + 1]) >= call.start[k + 1].duration
        /\ call.start[k].id \notin DOMAIN mem
        /\ call.start[k + 1].id \notin DOMAIN mem
    /\ \E e \in Started : e.id \in Range(List)

\* C10: update() reads the clock once, on entry; every entry the call
\* processes is judged against that one value, also when the counter has
\* moved on by the time the entry is reached.
C10_SingleSnapshot ==
    /\ pc = "scan" => call.reads = 1 /\ currentTime = call.t0 % W
    /\ call.reads <= 1
    /\ \A a \in Range(call.invoked) \cup Range(call.removed) :
        \E e \in Started :
            /\ e.id = a
            /\ a \in Range(call.invoked)
                    <=> ((call.t0 % W) - e.startTime) % W < e.duration
            /\ a \in Range(call.removed)
                    <=> ((call.t0 % W) - e.startTime) % W >= e.duration

\* An entry reached after the counter moved is invoked on the strength of
\* the snapshot although the counter's present value would expire it.
C10_Witness ==
    /\ Returned
    /\ now > call.t0
    /\ \E e \in Started :
        /\ e.id \in call.swayed
        /\ e.id \in Range(call.invoked)
        /\ ((call.t0 % W) - e.startTime) % W < e.duration
        /\ ((now % W) - e.startTime) % W >= e.duration

\* Times the call under way, or just returned, has processed an entry.
Visits(a) == Count(call.invoked, a) + Count(call.removed, a)

\* C11: an entry admitted by a task during an update() call is neither
\* invoked nor removed by that call and is on the list, in front of the
\* entries the call started with, when it returns; the entries the call
\* started with are each processed exactly once and the list stays a
\* null-terminated chain without repetition.
C11_ReentrantDeferred ==
    /\ \A a \in Range(call.spawned) :
        /\ Visits(a) = 0
        /\ a \in DOMAIN mem
        /\ Count(List, a) = 1
        /\ \A e \in Started : e.id # a
    /\ Returned =>
        /\ \A e \in Started : Visits(e.id) = 1
        /\ ListEnd = Null
        /\ \A a \in Range(List) : Count(List, a) = 1
        /\ Len(List) = Len(call.spawned) + Len(call.invoked)
        /\ \A i \in DOMAIN call.spawned :
            List[Len(call.spawned) + 1 - i] = call.spawned[i]

\* The task of the entry at the head of the list admitted an entry that
\* was live on the snapshot; the call returned without touching it, after
\* also processing the entry behind the head.
C11_Witness ==
    /\ Returned
    /\ Len(call.start) = 2
    /\ Len(call.spawned) = 1
    /\ call.invoked[1] = call.start[1].id
    /\ Visits(call.start[2].id) = 1
    /\ mem[call.spawned[1]].duration > 0
    /\ head = call.spawned[1]
    /\ Visits(call.spawned[1]) = 0

\* The task, startTime and duration of every node allocated before a step
\* are the same after it.
FieldsKept ==
    \A a \in DOMAIN mem \cap DOMAIN mem' :
        /\ mem'[a].task = mem[a].task
        /\ mem'[a].startTime = mem[a].startTime
        /\ mem'[a].duration = mem[a].duration

\* What a call execute(t, d) must have done: one node more, at a fresh
\* address, holding t, d and the clock reading; the list is the old one
\* with that node added and the old nodes are as they were.
Admitted(t, d) ==
    /\ head' \notin DOMAIN mem
    /\ DOMAIN mem' = DOMAIN mem \cup {head'}
    /\ mem'[head'].task = t
    /\ mem'[head'].duration = d
    /\ mem'[head'].startTime = now % W
    /\ Len(List') = Len(List) + 1
    /\ SelectSeq(List', LAMBDA a : a # head') = List
    /\ Count(List', head') = 1
    /\ FieldsKept
    /\ retired' = retired

\* C12: execute(task, duration) adds exactly one entry, bound to the given
\* task and duration and stamped with the clock reading at the call; the
\* entries already there keep their fields and their relative order, and
\* the call invokes no task and removes no entry.  The same holds of the
\* execute() a task calls from inside update().
C12_ExecuteFrame ==
    [][ /\ \A r \in Requests :
            Execute(r[1], r[2]) =>
                /\ Admitted(r[1], r[2])
                /\ call'.invoked = <<>> /\ call'.removed = <<>>
                /\ pc' = pc
        /\ \A d \in SpawnDurations :
            StepInvokeSpawn(d) =>
                /\ Admitted("tPlain", d)
                /\ call'.removed = call.removed
      ]_vars

\* A third entry has just been admitted, after the counter wrapped, in
\* front of two that were there.
C12_Witness ==
    /\ pc = "idle"
    /\ call = NoCall
    /\ Len(List) = 3
    /\ head = nAlloc
    /\ now >= W
    /\ mem[head].admit = now
    /\ mem[head].startTime = now % W

\* The entry the step has just invoked, if it invoked one.
NewlyInvoked ==
    IF Len(call'.invoked) > Len(call.invoked) /\ call'.reads = call.reads
            /\ call.reads = 1
    THEN {call'.invoked[Len(call'.invoked)]}
    ELSE {}

\* C13: an entry is created only by execute(), is destroyed at most once
\* and only by an update() call whose snapshot finds it expired, never
\* comes back once removed, and is never invoked after its removal.
C13_Lifecycle ==
    /\ [](/\ retired \cap DOMAIN mem = {}
          /\ retired \cap Range(List) = {}
          /\ retired \cap Range(call.invoked) = {}
          /\ retired \cup DOMAIN mem = 1 .. nAlloc
          /\ \A a \in Range(call.removed) : Count(call.removed, a) = 1)
    /\ [][ /\ retired \subseteq retired'
           /\ \A a \in DOMAIN mem' \ DOMAIN mem :
                /\ a \notin retired
                /\ nAlloc' = nAlloc + 1
                /\ a = nAlloc'
           /\ \A a \in DOMAIN mem \ DOMAIN mem' :
                /\ a \in retired' \ retired
                /\ pc = "scan"
                /\ ((call.t0 % W) - mem[a].startTime) % W >= mem[a].duration
           /\ \A a \in retired' \ retired : a \in DOMAIN mem \ DOMAIN mem'
           /\ \A a \in NewlyInvoked : a \in DOMAIN mem /\ a \notin retired'
         ]_vars

\* An entry was removed by an earlier call; entries admitted after its
\* removal have since been polled, one invoked and one removed in its turn.
C13_Witness ==
    /\ Returned
    /\ 1 \in retired
    /\ 1 \notin Range(call.removed)
    /\ \A e \in Started : e.admit > 0
    /\ call.invoked # <<>>
    /\ call.removed # <<>>

\* C14: an update() call that meets an entry whose Task wraps no callable
\* runs no callable for it; while live the entry counts as invoked once and
\* stays on the list, at its expiry it is removed like any other entry,
\* and the call goes on to treat every other entry it started with.
C14_EmptyTaskNoOp ==
    /\ Range(call.ran) \subseteq Range(call.invoked)
    /\ \A e \in Started :
        /\ e.task = "tEmpty" => e.id \notin Range(call.ran)
        /\ (e.task # "tEmpty" /\ e.id \in Range(call.invoked)) =>
                Count(call.ran, e.id) = 1
    /\ Returned =>
        /\ \A e \in Started : Visits(e.id) = 1
        /\ \A e \in Started :
            e.task = "tEmpty" =>
                IF SnapElapsed(e) < e.duration
                THEN /\ Count(call.invoked, e.id) = 1
                     /\ Count(List, e.id) = 1
                     /\ mem[e.id].task = "tEmpty"
                ELSE /\ Count(call.removed, e.id) = 1
                     /\ e.id \notin Range(call.invoked)
                     /\ e.id \notin DOMAIN mem

\* A live empty entry at the head is passed over and the entry behind it
\* still has its callable run.
C14_Witness ==
    /\ Returned
    /\ Len(call.start) >= 2
    /\ call.start[1].task = "tEmpty"
    /\ SnapElapsed(call.start[1]) < call.start[1].duration
    /\ call.invoked[1] = call.start[1].id
    /\ call.start[1].id \notin Range(call.ran)
    /\ call.start[1].id \in Range(List)
    /\ call.start[2].id \in Range(call.ran)

\* An empty entry met at its expiry is removed.
C14_WitnessExpiry ==
    /\ Returned
    /\ \E e \in Started :
        /\ e.task = "tEmpty"
        /\ SnapElapsed(e) = e.duration
        /\ e.id \in Range(call.removed)

\* A sequence of node addresses runs from the latest allocation to the
\* earliest; addresses are handed out in the order of the execute() calls.
NewestFirst(s) == \A i, j \in DOMAIN s : i < j => s[i] > s[j]

\* C15: the list is a stack. At every moment the entries stand on the list
\* strictly most recently scheduled first, and the entries one update()
\* call invokes are invoked in the reverse of the order of their admission.
C15_StackOrder ==
    /\ NewestFirst(List)
    /\ \A i, j \in DOMAIN List :
        i < j => mem[List[i]].admit >= mem[List[j]].admit
    /\ head # Null => \A a \in DOMAIN mem : a <= head
    /\ NewestFirst(call.invoked)
    /\ NewestFirst(call.ran)

\* Three entries admitted at three different instants; the call removed
\* the middle one and invoked the other two, the younger before the older.
C15_Witness ==
    /\ Returned
    /\ Len(call.start) = 3
    /\ call.start[1].admit > call.start[2].admit
    /\ call.start[2].admit > call.start[3].admit
    /\ call.invoked = <<call.start[1].id, call.start[3].id>>
    /\ call.removed = <<call.start[2].id>>
    /\ List = call.invoked

\* The entries the scan of the call under way has still to examine.
Remaining == Walk(Deref(indirect), MaxAllocs + 1)

\* C16: every update() call returns, having treated each entry that was on
\* the list when it started exactly once, by invoking or by removing it,
\* also when the tasks it invokes schedule new entries: those are linked in
\* front of the scan position and never lengthen what is left to scan.
C16_TickTerminates ==
    /\ [](pc = "scan" =>
            /\ Len(Remaining) + Len(call.invoked) + Len(call.removed)
                    = Len(call.start)
            /\ \A i \in DOMAIN Remaining :
                Remaining[i]
                    = call.start[Len(call.start) - Len(Remaining) + i].id
            /\ Range(call.spawned) \cap Range(Remaining) = {})
    /\ [](Returned =>
            /\ \A e \in Started : Visits(e.id) = 1
            /\ Len(call.invoked) + Len(call.removed) = Len(call.start))
    /\ (pc = "scan") ~> Returned

\* A call that started with two entries has returned, and every task it
\* invoked scheduled a new entry while it ran.
C16_Witness ==
    /\ Returned
    /\ Len(call.start) >= 2
    /\ Len(call.invoked) >= 1
    /\ Len(call.spawned) = Len(call.invoked)
    /\ Len(List) = Len(call.invoked) + Len(call.spawned)

\* update() has just returned and poll covers the entry's whole stay.
Polled == Returned /\ poll.last >= 0

\* C17: while update() is called so that the time from an entry's admission
\* to the first call, and from each call to the next, added to the entry's
\* duration stays within one period of the counter, a call invokes the
\* entry exactly when less than its duration has truly passed and removes
\* it at the first call at which its duration has truly passed; whatever
\* the calls' spacing, a call that comes a full period or more after the
\* admission decides on the time passed modulo the period, and so invokes
\* and keeps an entry whose duration truly passed long ago.
C17_BoundedPolling ==
    /\ Polled =>
        \A e \in Started :
            /\ poll.last = call.t0
            /\ poll.timely =>
                /\ TrueElapsed(e) < W \/ (TrueElapsed(e) = W /\ e.duration = 0)
                /\ IF TrueElapsed(e) < e.duration
                   THEN /\ Count(call.invoked, e.id) = 1
                        /\ e.id \in Range(List)
                   ELSE /\ Count(call.removed, e.id) = 1
                        /\ e.id \notin Range(call.invoked)
                        /\ e.id \notin DOMAIN mem
    /\ Returned =>
        \A e \in Started :
            (TrueElapsed(e) >= W /\ TrueElapsed(e) % W < e.duration) =>
                /\ Count(call.invoked, e.id) = 1
                /\ e.id \in Range(List)

\* An entry of duration 10 admitted five ticks before the counter wraps and
\* polled in time ever since is removed by the call that first finds ten
\* ticks or more truly passed, after the wrap.
C17_Witness ==
    /\ Polled
    /\ poll.timely
    /\ \E e \in Started :
        /\ e.duration = 10
        /\ e.admit = W - 5
        /\ TrueElapsed(e) > e.duration
        /\ call.removed = <<e.id>>
        /\ call.invoked = <<>>

\* The same entry, left unpolled for more than a period, is invoked again.
C17_WitnessLate ==
    /\ Polled
    /\ ~poll.timely
    /\ \E e \in Started :
        /\ e.duration = 10
        /\ TrueElapsed(e) > W
        /\ call.invoked = <<e.id>>
        /\ e.id \in Range(List)

\* The Task objects the program schedules.
Tasks == {r[1] : r \in Requests}

\* The entries of Task t the recorded call started with and found live.
LiveOf(t) ==
    {i \in DOMAIN call.start :
        call.start[i].task = t
            /\ SnapElapsed(call.start[i]) < call.start[i].duration}

\* Times the recorded call ran the callable of Task t.
TaskRuns(t) ==
    Cardinality({i \in DOMAIN call.ran :
        \E e \in Started : e.id = call.ran[i] /\ e.task = t})

\* C18: every call of execute() makes an entry of its own, also for a Task
\* that already has entries, stamped with the time of that call; an
\* update() call runs a Task once for each of its entries that is live, and
\* keeps or removes each entry by that entry's own start time and duration.
C18_SameTaskIndependentEntries ==
    /\ Cardinality(DOMAIN mem) + Cardinality(retired) = nAlloc
    /\ \A a \in DOMAIN mem : mem[a].startTime = mem[a].admit % W
    /\ Returned =>
        /\ \A t \in Tasks :
            TaskRuns(t) = IF HasFunction(t) THEN Cardinality(LiveOf(t)) ELSE 0
        /\ \A e \in Started :
            IF SnapElapsed(e) < e.duration
            THEN /\ Count(call.invoked, e.id) = 1
                 /\ Count(List, e.id) = 1
                 /\ Snap(e.id) = e
            ELSE /\ Count(call.removed, e.id) = 1
                 /\ e.id \notin DOMAIN mem

\* One Task scheduled three times: a call runs it twice, for its first and
\* its last entry, and removes the entry between them, whose own shorter
\* duration is over.
C18_Witness ==
    /\ Returned
    /\ Len(call.start) = 3
    /\ \A e \in Started : e.task = "tPlain"
    /\ call.start[1].duration = call.start[3].duration
    /\ call.start[2].duration > 0
    /\ call.start[1].admit > call.start[3].admit
    /\ TaskRuns("tPlain") = 2
    /\ call.ran = <<call.start[1].id, call.start[3].id>>
    /\ call.removed = <<call.start[2].id>>

\* What was fixed for the entry at a when it was admitted.
Fixed(m, a) == <<m[a].task, m[a].startTime, m[a].duration, m[a].admit>>

\* C19: the task, start time and duration of an entry on the list never
\* change, whatever execute() and update() calls follow its admission; a
\* step of update() alters the list only by taking the entry it examines
\* off it, and leaves that entry in place when it is not expired.
C19_FieldsFixed ==
    [][ <<head, mem>>' # <<head, mem>> =>
        LET old == List
            new == List'
            kept == Range(old) \cap Range(new)
        IN
        /\ \A a \in kept :

            /\ Fixed(mem', a) = Fixed(mem, a)
            /\ mem'[a].startTime = mem[a].admit % W
        /\ pc = "scan" =>
            /\ SelectSeq(new, LAMBDA a : a \in kept)
                    = SelectSeq(old, LAMBDA a : a \in kept)
            /\ \A a \in Range(old) \ kept :
                /\ a = Deref(indirect)
                /\ ((call.snap - mem[a].startTime) % W) >= mem[a].duration
            /\ Len(new) >= Len(old) - 1
      ]_vars


\* An entry admitted before the counter wrapped has been through a call
\* after the wrap that invoked it and removed its neighbour: it is on the
\* list as it was admitted.
C19_Witness ==
    /\ Returned
    /\ call.t0 >= W
    /\ call.removed # <<>>
    /\ \E e \in Started :
        /\ e.admit < W
        /\ e.id \in Range(call.invoked)
        /\ e.id \in Range(List)
        /\ Fixed(mem, e.id) = <<e.task, e.startTime, e.duration, e.admit>>
        /\ mem[e.id].startTime # call.snap

=============================================================================
